---------------------------- MODULE Spec2Model ----------------------------
(***************************************************************************)
(* ABAP READ TABLE remediator (src/app/app.py).                            *)
(*                                                                         *)
(* A text is a sequence of one-character strings.  A Python offset p       *)
(* (0-based) names the character txt[p + 1]; a span (start, end) is the    *)
(* half-open offset range of a regex match.                                *)
(***************************************************************************)
EXTENDS Integers, Sequences, FiniteSets, TLC

VARIABLES pc, endpoint, units, i, res, response

vars == <<pc, endpoint, units, i, res, response>>

\* An Optional[...] value: None, or Some(x)
None == <<>>

Some(x) == <<x>>

-----------------------------------------------------------------------------
(* Characters *)

\* the upper-case letter of each lower-case letter
UpperOf ==
    [a |-> "A", b |-> "B", c |-> "C", d |-> "D", e |-> "E", f |-> "F",
     g |-> "G", h |-> "H", i |-> "I", j |-> "J", k |-> "K", l |-> "L",
     m |-> "M", n |-> "N", o |-> "O", p |-> "P", q |-> "Q", r |-> "R",
     s |-> "S", t |-> "T", u |-> "U", v |-> "V", w |-> "W", x |-> "X",
     y |-> "Y", z |-> "Z"]

LowerLetters == DOMAIN UpperOf

UpperLetters == {UpperOf[c] : c \in LowerLetters}

Digits == {"0","1","2","3","4","5","6","7","8","9"}

\* str.upper() on one character
UpperChar(c) == IF c \in LowerLetters THEN UpperOf[c] ELSE c

\* str.upper()
upper(s) == [k \in 1..Len(s) |-> UpperChar(s[k])]

\* regex \s
SpaceChars == {" ", "\n", "\t"}

\* regex \w
WordChars == LowerLetters \cup UpperLetters \cup Digits \cup {"_"}

\* regex [ ,]
SepChars == {" ", ","}

\* regex (?:\.|\n)
TerminatorChars == {".", "\n"}

\* a whitespace character (\s, str.strip)
IsSpace(c) == c \in SpaceChars

IsSep(c) == c \in SepChars

IsTerminator(c) == c \in TerminatorChars

Min(S) == CHOOSE x \in S : \A y \in S : x <= y

Max(S) == CHOOSE x \in S : \A y \in S : y <= x

\* text[a:b]
Slice(txt, a, b) == SubSeq(txt, a + 1, b)

\* the character at offset p, "" past the end
At(txt, p) == IF p >= 0 /\ p < Len(txt) THEN txt[p + 1] ELSE ""

\* a literal of the pattern under re.IGNORECASE, at offset p (w in upper case)
Lit(txt, p, w) ==
    /\ p < Len(txt)
    /\ UpperChar(txt[p + 1]) = w[1]
    /\ p + Len(w) <= Len(txt)
    /\ \A k \in 2..Len(w) : UpperChar(txt[p + k]) = w[k]

\* offset after the longest run of characters of Class from offset p:
\* where a greedy \s* \w* \d* [ ,]* stops
RunEnd(txt, p, Class) ==
    CHOOSE q \in p..Len(txt) :
        /\ \A r \in p..(q - 1) : txt[r + 1] \in Class
        /\ (q = Len(txt) \/ txt[q + 1] \notin Class)

-----------------------------------------------------------------------------
(* REGEX DEFINITIONS *)

NoMatch == [ok |-> FALSE]

\* the literals of READ_TABLE_RE and SORT_RE
KwREAD == <<"R","E","A","D">>

KwTABLE == <<"T","A","B","L","E">>

KwWITH == <<"W","I","T","H">>

KwKEY == <<"K","E","Y">>

KwSORT == <<"S","O","R","T">>

KwBY == <<"B","Y">>

\* \s+(?P<g>.+?)(?:\.|\n) at offset k.  \s+ is greedy and gives characters back
\* one at a time; the lazy group takes one character (any, under re.DOTALL)
\* and grows up to the first terminator after it.
TailMatch(txt, k) ==
    LET e  == RunEnd(txt, k, SpaceChars)
        ok(gs) == \E t \in (gs + 1)..(Len(txt) - 1) : IsTerminator(txt[t + 1])
        G  == {gs \in (k + 1)..e : ok(gs)}
    IN  IF G = {} THEN NoMatch
        ELSE LET gs == Max(G)
                 t  == Min({x \in (gs + 1)..(Len(txt) - 1) :
                              IsTerminator(txt[x + 1])})
             IN  [ok |-> TRUE, gs |-> gs, ge |-> t, end |-> t + 1]

\* SORT_RE matched at offset s
SORT_RE_at(txt, s) ==
    IF ~Lit(txt, s, KwSORT) THEN NoMatch
    ELSE
    LET a == s + 4
        b == RunEnd(txt, a, SpaceChars)
        c == RunEnd(txt, b, WordChars)
        d == RunEnd(txt, c, SpaceChars)
    IN  IF ~(b > a /\ c > b /\ d > c /\ Lit(txt, d, KwBY)) THEN NoMatch
        ELSE LET t == TailMatch(txt, d + 2)
             IN  IF ~t.ok THEN NoMatch
                 ELSE [ok |-> TRUE, start |-> s, end |-> t.end,
                       itab |-> Slice(txt, b, c),
                       fields |-> Slice(txt, t.gs, t.ge)]

\* WITH\s+KEY\s+(?P<keys>.+?)(?:\.|\n) at offset w
WithKeyAt(txt, w) ==
    IF ~Lit(txt, w, KwWITH) THEN NoMatch
    ELSE
    LET a == w + 4
        b == RunEnd(txt, a, SpaceChars)
    IN  IF ~(b > a /\ Lit(txt, b, KwKEY)) THEN NoMatch
        ELSE TailMatch(txt, b + 3)

\* .*?WITH...: the first offset from p on where the WITH KEY clause matches,
\* -1 if there is none.  Under re.DOTALL the lazy .*? crosses periods and
\* line breaks.
FirstWithKey(txt, p) ==
    LET W == {w \in p..(Len(txt) - 1) : WithKeyAt(txt, w).ok}
    IN  IF W = {} THEN -1 ELSE Min(W)

\* READ_TABLE_RE matched at offset s.  (?P<itab>\w+) is greedy: it takes the
\* whole word, and gives characters back only when no WITH KEY clause
\* matches after the word, down to the last clause that starts inside it.
READ_TABLE_RE_at(txt, s) ==
    IF ~Lit(txt, s, KwREAD) THEN NoMatch
    ELSE
    LET a == s + 4
        b == RunEnd(txt, a, SpaceChars)
    IN  IF ~(b > a /\ Lit(txt, b, KwTABLE)) THEN NoMatch
        ELSE
        LET c == b + 5
            d == RunEnd(txt, c, SpaceChars)
            e == RunEnd(txt, d, WordChars)
            after  == FirstWithKey(txt, e)
            Inside == {w \in (d + 1)..(e - 1) : WithKeyAt(txt, w).ok}
            w  == IF after >= 0 THEN after ELSE Max(Inside)
            ie == IF after >= 0 THEN e ELSE w
            t  == WithKeyAt(txt, w)
        IN  IF ~(d > c /\ e > d /\ (after >= 0 \/ Inside # {})) THEN NoMatch
            ELSE [ok |-> TRUE, start |-> s, end |-> t.end,
                  itab |-> Slice(txt, d, ie),
                  keys |-> Slice(txt, t.gs, t.ge)]

\* the offsets of the set S in increasing order
RECURSIVE Ascending(_)
Ascending(S) ==
    IF S = {} THEN <<>> ELSE <<Min(S)>> \o Ascending(S \ {Min(S)})

\* the matches among the attempts ms, one attempt at each offset where the
\* pattern's first literal stands, in increasing order of offset
Matched(ms) == SelectSeq(ms, LAMBDA m : m.ok)

\* pattern.finditer(txt) over the matches ms: the scan takes the first match
\* that starts at or after pos and goes on from the end of that match
RECURSIVE Scan(_, _)
Scan(ms, pos) ==
    IF ms = <<>> THEN <<>>
    ELSE IF Head(ms).start < pos THEN Scan(Tail(ms), pos)
    ELSE <<Head(ms)>> \o Scan(Tail(ms), Head(ms).end)

\* SORT_RE tried at each of the offsets starts
SORT_attempts(txt, starts) ==
    [k \in 1..Len(starts) |-> SORT_RE_at(txt, starts[k])]

SORT_finditer(txt) ==
    Scan(Matched(SORT_attempts(txt,
             Ascending({s \in 0..(Len(txt) - 1) : Lit(txt, s, KwSORT)}))), 0)

\* READ_TABLE_RE tried at each of the offsets starts
READ_attempts(txt, starts) ==
    [k \in 1..Len(starts) |-> READ_TABLE_RE_at(txt, starts[k])]

READ_finditer(txt) ==
    Scan(Matched(READ_attempts(txt,
             Ascending({s \in 0..(Len(txt) - 1) : Lit(txt, s, KwREAD)}))), 0)

-----------------------------------------------------------------------------
(* HELPERS *)

\* the lookahead (?=\s*\+\s*\d+\s*\(\d+\)\s*=|\s*=) at offset q of s
KeyLookahead(s, q) ==
    LET q1 == RunEnd(s, q, SpaceChars)
        q2 == RunEnd(s, q1 + 1, SpaceChars)
        q3 == RunEnd(s, q2, Digits)
        q4 == RunEnd(s, q3, SpaceChars)
        q5 == RunEnd(s, q4 + 1, Digits)
        q6 == RunEnd(s, q5 + 1, SpaceChars)
    IN  \/ /\ At(s, q1) = "+"
           /\ q3 > q2
           /\ At(s, q4) = "("
           /\ q5 > q4 + 1
           /\ At(s, q5) = ")"
           /\ At(s, q6) = "="
        \/ At(s, q1) = "="

\* re.findall(r"(\w+)(?=...)", s) from offset p: the field names before an "="
RECURSIVE KeyFindAll(_, _)
KeyFindAll(s, p) ==
    IF p >= Len(s) THEN <<>>
    ELSE LET e == RunEnd(s, p, WordChars)
             E == {q \in (p + 1)..e : KeyLookahead(s, q)}
         IN  IF E = {} THEN KeyFindAll(s, p + 1)
             ELSE <<Slice(s, p, Max(E))>> \o KeyFindAll(s, Max(E))

\* re.split(r"[ ,]+", s) from offset p
RECURSIVE Split(_, _)
Split(s, p) ==
    LET S == {q \in p..(Len(s) - 1) : IsSep(s[q + 1])}
    IN  IF S = {} THEN <<Slice(s, p, Len(s))>>
        ELSE <<Slice(s, p, Min(S))>> \o Split(s, RunEnd(s, Min(S), SepChars))

\* str.strip()
Strip(s) ==
    LET K == {k \in 1..Len(s) : ~IsSpace(s[k])}
    IN  IF K = {} THEN <<>>
        ELSE SubSeq(s, Min(K), Max(K))

\* [f.strip().upper() for f in re.split(r"[ ,]+", fields_raw) if f.strip()]
SortFields(fields_raw) ==
    LET parts == Split(fields_raw, 0)
        kept  == SelectSeq(parts, LAMBDA f : Strip(f) # <<>>)
    IN  [k \in 1..Len(kept) |-> upper(Strip(kept[k]))]

\* the loop of extract_sort_statements keeping the first sort of a table
RECURSIVE SortMapOf_FirstWins(_, _)
SortMapOf_FirstWins(ms, sort_map) ==
    IF ms = <<>> THEN sort_map
    ELSE LET m      == Head(ms)
             itab   == upper(m.itab)
             fields == SortFields(m.fields)
         IN  SortMapOf_FirstWins(Tail(ms),
                 IF \E r \in sort_map : r[1] = itab THEN sort_map
                 ELSE sort_map \cup {<<itab, fields>>})

\* the loop of extract_sort_statements over the matches ms, from sort_map
RECURSIVE SortMapOf(_, _)
SortMapOf(ms, sort_map) ==
    IF ms = <<>> THEN sort_map
    ELSE LET m      == Head(ms)
             itab   == upper(m.itab)
             fields == SortFields(m.fields)
             keep   == {r \in sort_map : r[1] # itab}
         IN  SortMapOf(Tail(ms), keep \cup {<<itab, fields>>})

\* sort_map: a dict, as its set of (itab, fields) items
extract_sort_statements(txt) == SortMapOf(SORT_finditer(txt), {})

\* sort_map.get(key, [])
DictGet(sort_map, key) ==
    IF \E r \in sort_map : r[1] = key
    THEN (CHOOSE r \in sort_map : r[1] = key)[2]
    ELSE <<>>

\* fields_match comparing only as many fields as both lists have
fields_match_PrefixOnly(sort_fields, key_fields) ==
    IF sort_fields = <<>> \/ key_fields = <<>> THEN FALSE
    ELSE LET n == IF Len(sort_fields) < Len(key_fields)
                  THEN Len(sort_fields) ELSE Len(key_fields)
         IN  SubSeq(sort_fields, 1, n) = SubSeq(key_fields, 1, n)

fields_match(sort_fields, key_fields) ==
    IF sort_fields = <<>> \/ key_fields = <<>> THEN FALSE
    ELSE IF Len(sort_fields) < Len(key_fields) THEN FALSE
    ELSE SubSeq(sort_fields, 1, Len(key_fields)) = key_fields

\* text.count("\n", 0, pos) + 1
get_line(text, pos) ==
    Cardinality({k \in 1..pos : k <= Len(text) /\ text[k] = "\n"}) + 1

get_multiline_snippet(text, start, end) ==
    LET B == {q \in 0..(start - 1) : q < Len(text) /\ text[q + 1] = "\n"}
        line_start == IF B = {} THEN 0 ELSE Max(B) + 1
        A == {q \in end..(Len(text) - 1) : text[q + 1] = "\n"}
        line_end == IF A = {} THEN Len(text) ELSE Min(A)
    IN  Slice(text, line_start, line_end)

\* ', '.join(parts)
RECURSIVE Join(_)
Join(parts) ==
    IF parts = <<>> THEN <<>>
    ELSE IF Len(parts) = 1 THEN parts[1]
    ELSE parts[1] \o <<",", " ">> \o Join(Tail(parts))

\* the suggestion with the table identifier upper-cased
Suggestion_UpperTable(itab, key_fields) ==
    <<"S","O","R","T"," ">> \o upper(itab) \o <<" ","B","Y"," ">>
        \o Join(key_fields) \o <<".">>

\* f"SORT {itab} BY {', '.join(key_fields)}."
Suggestion(itab, key_fields) ==
    <<"S","O","R","T"," ">> \o itab \o <<" ","B","Y"," ">>
        \o Join(key_fields) \o <<".">>

\* [f.upper() for f in found]
UpperAll(found) == [k \in 1..Len(found) |-> upper(found[k])]

\* the key fields as written, not upper-cased
KeyFields_AsWritten(keys_raw) == KeyFindAll(keys_raw, 0)

\* [f.upper() for f in re.findall(..., keys_raw)]
KeyFields(keys_raw) == UpperAll(KeyFindAll(keys_raw, 0))

\* the end of an iteration of the loop of find_read_table_usage: the hit
\* appended for match m when its key_fields are not already_sorted
HitIfUnsorted(m, key_fields, already_sorted) ==
    IF ~already_sorted
    THEN <<[span |-> <<m.start, m.end>>,
            itab |-> m.itab,
            keys |-> key_fields,
            suggestion |-> IF key_fields # <<>>
                           THEN Some(Suggestion(m.itab, key_fields))
                           ELSE None]>>
    ELSE <<>>

\* already_sorted of the key_fields of match m
AlreadySorted(m, key_fields, sort_map) ==
    fields_match(DictGet(sort_map, upper(m.itab)), key_fields)

\* an iteration of the loop of find_read_table_usage from its key_fields on
HitsOfKeys(m, key_fields, sort_map) ==
    HitIfUnsorted(m, key_fields, AlreadySorted(m, key_fields, sort_map))

\* one iteration of the loop of find_read_table_usage: the hit of match m,
\* or no hit
HitsOf(m, sort_map) == HitsOfKeys(m, KeyFields(m.keys), sort_map)

RECURSIVE HitsLoop(_, _)
HitsLoop(ms, sort_map) ==
    IF ms = <<>> THEN <<>>
    ELSE HitsOf(Head(ms), sort_map) \o HitsLoop(Tail(ms), sort_map)

find_read_table_usage(txt) ==
    HitsLoop(READ_finditer(txt), extract_sort_statements(txt))

-----------------------------------------------------------------------------
(* MODELS *)

\* Unit(**body): the request body with the defaults of the model's fields.
\* The Optional fields hold None or Some(x); findings holds None until
\* scan_unit sets out["findings"], a list.
Unit(body) ==
    [pgm_name   |-> body.pgm_name,
     inc_name   |-> body.inc_name,
     type       |-> body.type,
     name       |-> IF "name" \in DOMAIN body THEN body.name ELSE None,
     start_line |-> IF "start_line" \in DOMAIN body THEN body.start_line ELSE Some(0),
     end_line   |-> IF "end_line" \in DOMAIN body THEN body.end_line ELSE Some(0),
     code       |-> IF "code" \in DOMAIN body THEN body.code ELSE Some(<<>>),
     findings   |-> None]

-----------------------------------------------------------------------------
(* CORE SCAN LOGIC *)

\* x or default, of an Optional x whose falsy value is the default
Or(x, default) == IF x = None THEN default ELSE x[1]

\* repr(keys) of a list of strings
RECURSIVE ReprItems(_)
ReprItems(keys) ==
    IF keys = <<>> THEN <<>>
    ELSE <<"'">> \o keys[1] \o <<"'">>
         \o (IF Len(keys) > 1 THEN <<",", " ">> ELSE <<>>)
         \o ReprItems(Tail(keys))

\* f"READ TABLE on '{itab}' without proper SORT for keys {keys}."
Message(itab, keys) ==
    <<"R","E","A","D"," ","T","A","B","L","E"," ","o","n"," ","'">>
        \o itab
        \o <<"'"," ","w","i","t","h","o","u","t"," ","p","r","o","p","e","r"," ","S","O","R","T"," ","f","o","r"," ","k","e","y","s"," ">>
        \o <<"[">> \o ReprItems(keys) \o <<"]", ".">>

\* snippet.replace("\n", "\\n")
RECURSIVE EscapeNewlines(_)
EscapeNewlines(s) ==
    LET N == {k \in 1..Len(s) : s[k] = "\n"}
    IN  IF N = {} THEN s
        ELSE SubSeq(s, 1, Min(N) - 1) \o <<"\\", "n">>
                 \o EscapeNewlines(SubSeq(s, Min(N) + 1, Len(s)))

\* snippet.count("\n")
CountNewlines(s) == Cardinality({k \in 1..Len(s) : s[k] = "\n"})

\* one iteration of the loop of scan_unit: the Finding of hit m
FindingOf(unit, src, base, m) ==
    LET span_start == m.span[1]
        span_end   == m.span[2]
        rel_line   == get_line(src, span_start)
        starting_line_abs == base + (rel_line - 1)
        snippet    == get_multiline_snippet(src, span_start, span_end)
        snippet_line_count == CountNewlines(snippet) + 1
        ending_line_abs == starting_line_abs + snippet_line_count - 1
    IN  [prog_name     |-> unit.pgm_name,
         incl_name     |-> unit.inc_name,
         types         |-> unit.type,
         blockname     |-> unit.name,
         starting_line |-> starting_line_abs,
         ending_line   |-> ending_line_abs,
         issues_type   |-> "READ_TABLE_Without_SORT",
         severity      |-> "error",
         message       |-> Message(m.itab, m.keys),
         suggestion    |-> m.suggestion,
         snippet       |-> EscapeNewlines(snippet)]

\* the loop of scan_unit over the hits of src
FindingsOf(unit, src, base, hits) ==
    [k \in 1..Len(hits) |-> FindingOf(unit, src, base, hits[k])]

\* scan_unit of the unit with source src and line offset base
ScanOf(unit, src, base) ==
    [unit EXCEPT !.findings =
        FindingsOf(unit, src, base, find_read_table_usage(src))]

\* scan_unit with a sort_map that lives on from unit to unit of a request
scan_unit_SharedSortMap(unit) ==
    LET src  == Or(unit.code, <<>>)
        base == Or(unit.start_line, 0)
        seen == [k \in 1..i |-> SORT_finditer(Or(units[k].code, <<>>))]
        RECURSIVE Flat(_)
        Flat(n) == IF n = 0 THEN <<>> ELSE Flat(n - 1) \o seen[n]
        sort_map == SortMapOf(Flat(i), {})
        hits == HitsLoop(READ_finditer(src), sort_map)
    IN  [unit EXCEPT !.findings = FindingsOf(unit, src, base, hits)]

scan_unit(unit) == ScanOf(unit, Or(unit.code, <<>>), Or(unit.start_line, 0))

-----------------------------------------------------------------------------
(* Request bodies *)

\* the most fragments of source text in one unit's code
MaxFragments == 2

\* the most units in one /remediate-array request
MaxUnits == 3

SP == <<" ">>

NL == <<"\n">>

DOT == <<".">>

T == <<"T">>

U == <<"U">>

A == <<"A">>

B == <<"B">>

LowerChar(c) ==
    IF c \in UpperLetters THEN CHOOSE l \in LowerLetters : UpperOf[l] = c ELSE c

lower(s) == [k \in 1..Len(s) |-> LowerChar(s[k])]

\* SORT <t> BY <fs>
SortStmt(t, fs) ==
    KwSORT \o SP \o t \o SP \o KwBY \o SP \o fs

\* READ TABLE <t><mid>WITH KEY <ks>
ReadStmt(t, mid, ks) ==
    KwREAD \o SP \o KwTABLE \o SP \o t \o mid
        \o KwWITH \o SP \o KwKEY \o SP \o ks

\* <f> = <v>
Eq(f, v) == f \o <<" ", "=", " ">> \o v

SortFragments ==
    { SortStmt(T, A) \o DOT \o NL,
      SortStmt(T, A \o <<",", " ">> \o B) \o DOT \o NL,
      lower(SortStmt(T, B)) \o NL,
      SortStmt(U, A) \o DOT,
      SortStmt(T, A) \o DOT \o NL \o SortStmt(T, B) \o DOT \o NL }

ReadFragments ==
    { ReadStmt(T, SP, Eq(A, <<"1">>)) \o DOT \o NL,
      ReadStmt(T, SP, Eq(A, <<"1">>) \o SP \o Eq(B, <<"2">>)) \o DOT,
      ReadStmt(T, SP, Eq(B, <<"1">>) \o SP \o Eq(A, <<"2">>)) \o NL,
      lower(ReadStmt(T, SP, Eq(A, <<"1">>))) \o NL,
      ReadStmt(T, NL \o SP, Eq(B, <<"1">>)) \o DOT \o NL,
      ReadStmt(T, SP, <<"X">>) \o DOT \o NL,
      ReadStmt(U, SP, Eq(A \o <<"+","0","(","1",")">>, <<"1">>)) \o DOT \o NL,
      ReadStmt(<<"V","B","A","K">>, SP,
               Eq(<<"V","B","E","L","N">>, <<"'","1","'">>)) \o DOT }

OtherFragments ==
    { KwREAD \o SP \o KwTABLE \o SP \o U \o SP
          \o <<"I","N","D","E","X">> \o SP \o <<"1">> \o DOT \o NL,
      NL }

Fragments == SortFragments \cup ReadFragments \cup OtherFragments

RECURSIVE TextsOfLen(_)
TextsOfLen(n) ==
    IF n = 0 THEN {<<>>}
    ELSE {f \o t : f \in Fragments, t \in TextsOfLen(n - 1)}

Codes == UNION {TextsOfLen(n) : n \in 0..MaxFragments}

\* a body that leaves start_line out
Body(code) ==
    [pgm_name |-> "ZPROG", inc_name |-> "ZINCL", type |-> "FORM",
     name |-> Some("MAIN"), code |-> code]

\* a body that gives start_line
BodyAt(code, start_line) ==
    [pgm_name |-> "ZPROG", inc_name |-> "ZINCL", type |-> "FORM",
     name |-> Some("MAIN"), code |-> code, start_line |-> start_line]

StartLines == {Some(1), Some(10)}

Bodies ==
    {Body(Some(c)) : c \in Codes}
        \cup {BodyAt(Some(c), sl) : c \in Codes, sl \in StartLines}
        \cup {Body(None)}

\* the units of /remediate-array requests: a sort alone, reads alone, a
\* covered read, text without a read, a null code, a null start_line
ArrayBodies ==
    { Body(Some(SortStmt(T, A) \o DOT \o NL)),
      Body(Some(ReadStmt(T, SP, Eq(A, <<"1">>)) \o DOT \o NL)),
      BodyAt(Some(ReadStmt(T, SP, Eq(B, <<"1">>)) \o NL), None),
      BodyAt(Some(SortStmt(T, A) \o DOT \o NL
                    \o ReadStmt(T, SP, Eq(A, <<"1">>)) \o DOT), Some(10)),
      Body(None) }

RECURSIVE BodyLists(_)
BodyLists(n) ==
    IF n = 0 THEN {<<>>}
    ELSE {<<b>> \o l : b \in ArrayBodies, l \in BodyLists(n - 1)}

-----------------------------------------------------------------------------
(* ENDPOINTS *)

Init ==
    /\ pc = "idle"
    /\ endpoint = ""
    /\ units = <<>>
    /\ i = 0
    /\ res = <<>>
    /\ response = None

\* a POST /remediate request arrives: unit: Unit = Body(...)
post_remediate ==
    /\ pc = "idle"
    /\ \E body \in Bodies : units' = <<Unit(body)>>
    /\ endpoint' = "/remediate"
    /\ pc' = "remediate_read"
    /\ UNCHANGED <<i, res, response>>

\* remediate_read(unit)
remediate_read ==
    /\ pc = "remediate_read"
    /\ response' = Some(scan_unit(units[1]))
    /\ pc' = "done"
    /\ UNCHANGED <<endpoint, units, i, res>>

\* a POST /remediate-array request arrives: units: List[Unit] = Body(...);
\* remediate_read_array starts with res = []
post_remediate_array ==
    /\ pc = "idle"
    /\ \E n \in 0..MaxUnits : \E bodies \in BodyLists(n) :
          units' = [k \in 1..n |-> Unit(bodies[k])]
    /\ endpoint' = "/remediate-array"
    /\ res' = <<>>
    /\ i' = 1
    /\ pc' = "remediate_read_array"
    /\ UNCHANGED response

\* the loop appending every scanned unit
remediate_read_array_loop_AppendAll ==
    /\ pc = "remediate_read_array"
    /\ i <= Len(units)
    /\ res' = Append(res, scan_unit(units[i]))
    /\ i' = i + 1
    /\ UNCHANGED <<pc, endpoint, units, response>>

\* one iteration of  for u in units
remediate_read_array_loop ==
    /\ pc = "remediate_read_array"
    /\ i <= Len(units)
    /\ \E scanned \in {scan_unit(units[i])} :
          res' = IF scanned.findings # <<>> THEN Append(res, scanned) ELSE res
    /\ i' = i + 1
    /\ UNCHANGED <<pc, endpoint, units, response>>

\* return res
remediate_read_array_return ==
    /\ pc = "remediate_read_array"
    /\ i > Len(units)
    /\ response' = Some(res)
    /\ pc' = "done"
    /\ UNCHANGED <<endpoint, units, i, res>>

Next ==
    \/ post_remediate
    \/ remediate_read
    \/ post_remediate_array
    \/ remediate_read_array_loop
    \/ remediate_read_array_return

Spec == Init /\ [][Next]_vars

-----------------------------------------------------------------------------
(* Properties *)

\* a /remediate request has been answered
Answered == pc = "done" /\ endpoint = "/remediate"

\* the text the answered unit was scanned as, and the findings returned
Src == Or(units[1].code, <<>>)

Findings == response[1].findings

\* the coverage rule as the specification words it
Covered(K, S) ==
    /\ K # <<>>
    /\ S # <<>>
    /\ Len(S) >= Len(K)
    /\ \A j \in 1..Len(K) : S[j] = K[j]

\* the read-with-key constructs of txt that the rule leaves uncovered
UncoveredReads(txt) ==
    LET sort_index == extract_sort_statements(txt)
    IN  SelectSeq(READ_finditer(txt),
                  LAMBDA m : ~Covered(KeyFields(m.keys),
                                      DictGet(sort_index, upper(m.itab))))

\* C1: the findings of a unit are, in order, those of its read-with-key
\* constructs that are not covered: K empty, S empty, S shorter than K, or
\* the first len(K) fields of S not K.  Sort [A] with keys [A, B] and sort
\* [A, B] with keys [B, A] are uncovered, sort [A, B] with keys [A, B] or [A]
\* is covered, and no K empty is covered.
C1_FindingIffUncovered ==
    /\ ~fields_match(<<A>>, <<A, B>>)
    /\ ~fields_match(<<A, B>>, <<B, A>>)
    /\ fields_match(<<A, B>>, <<A, B>>)
    /\ fields_match(<<A, B>>, <<A>>)
    /\ \A S \in {<<>>, <<A>>, <<A, B>>} : ~fields_match(S, <<>>)
    /\ Answered =>
         LET un == UncoveredReads(Src)
         IN  /\ Len(Findings) = Len(un)
             /\ \A k \in 1..Len(un) :
                  Findings[k].message
                      = Message(un[k].itab, KeyFields(un[k].keys))

\* a unit sorts T by A alone and reads T with keys A and B: the read is reported
C1_Witness ==
    /\ Answered
    /\ extract_sort_statements(Src) = {<<T, <<A>>>>}
    /\ \E k \in 1..Len(Findings) : Findings[k].message = Message(T, <<A, B>>)

\* the sort constructs of txt on table t (upper case), in text order
SortsOf(txt, t) == SelectSeq(SORT_finditer(txt), LAMBDA m : upper(m.itab) = t)

TwoSorts == SortStmt(T, A) \o DOT \o NL \o SortStmt(T, B) \o DOT \o NL

\* C3: the sort index maps every sorted table to the field list of its last
\* sort construct in text order, and to nothing else; after SORT T BY A and
\* SORT T BY B a read of T with key B is not reported and one with key A is.
C3_LastSortWins ==
    Answered =>
      LET sort_index == extract_sort_statements(Src)
          sorts == SORT_finditer(Src)
      IN  /\ {r[1] : r \in sort_index}
                = {upper(sorts[k].itab) : k \in 1..Len(sorts)}
          /\ \A r \in sort_index :
               LET mine == SortsOf(Src, r[1])
               IN  r[2] = SortFields(mine[Len(mine)].fields)
          /\ Src = TwoSorts \o ReadStmt(T, NL \o SP, Eq(B, <<"1">>)) \o DOT \o NL
               => Findings = <<>>
          /\ Src = TwoSorts \o ReadStmt(T, SP, Eq(A, <<"1">>)) \o DOT \o NL
               => Len(Findings) = 1

\* a unit sorts T by A, then by B, and reads T with key B: nothing is reported
C3_Witness ==
    /\ Answered
    /\ Src = TwoSorts \o ReadStmt(T, NL \o SP, Eq(B, <<"1">>)) \o DOT \o NL
    /\ Len(SortsOf(Src, T)) = 2
    /\ Findings = <<>>

\* F1, F2, ... with ", " between them
RECURSIVE CommaList(_)
CommaList(fs) ==
    IF Len(fs) <= 1 THEN (IF fs = <<>> THEN <<>> ELSE fs[1])
    ELSE CommaList(SubSeq(fs, 1, Len(fs) - 1)) \o <<",", " ">> \o fs[Len(fs)]

VbakRead ==
    ReadStmt(<<"V","B","A","K">>, SP,
             Eq(<<"V","B","E","L","N">>, <<"'","1","'">>)) \o DOT

\* C6: every finding of a read with key fields suggests exactly
\* SORT <table as written> BY <F1>, <F2>, ... and a period; a finding of a
\* read with no key field has no suggestion (None, not an empty string); the
\* unsorted READ TABLE VBAK WITH KEY VBELN = '1'. gives one finding,
\* READ_TABLE_Without_SORT, suggesting SORT VBAK BY VBELN.
C6_Suggestion ==
    Answered =>
      LET un == UncoveredReads(Src)
      IN  /\ Len(Findings) = Len(un)
          /\ \A k \in 1..Len(un) :
               LET K == KeyFields(un[k].keys)
               IN  Findings[k].suggestion =
                     IF K # <<>>
                     THEN Some(<<"S","O","R","T"," ">> \o un[k].itab
                                 \o <<" ","B","Y"," ">> \o CommaList(K) \o <<".">>)
                     ELSE None
          /\ Src = VbakRead =>
               /\ Len(Findings) = 1
               /\ Findings[1].issues_type = "READ_TABLE_Without_SORT"
               /\ Findings[1].suggestion
                    = Some(<<"S","O","R","T"," ","V","B","A","K"," ",
                             "B","Y"," ","V","B","E","L","N",".">>)

\* one unit holds a finding with a two-field suggestion and a finding of a
\* read without key fields, which has none
C6_Witness ==
    /\ Answered
    /\ \E k \in 1..Len(Findings) : Findings[k].suggestion = None
    /\ \E k \in 1..Len(Findings) :
         Findings[k].suggestion
             = Some(<<"S","O","R","T"," ","T"," ","B","Y"," ","A",","," ","B",".">>)

\* the spans of the reads that find_read_table_usage reports in txt
ReportedSpans(txt) ==
    LET hits == find_read_table_usage(txt)
    IN  [k \in 1..Len(hits) |-> hits[k].span]

\* C4: which reads are reported does not depend on the letter case of the
\* text: the unit's code, the code in upper case and the code in lower case
\* report the reads at the same spans.
C4_CaseInsensitive ==
    Answered =>
      /\ ReportedSpans(upper(Src)) = ReportedSpans(Src)
      /\ ReportedSpans(lower(Src)) = ReportedSpans(Src)

\* a unit sorts t by b in lower case and reads T with key B in upper case:
\* the read is covered
C4_Witness ==
    /\ Answered
    /\ Src = lower(SortStmt(T, B)) \o NL
               \o ReadStmt(T, NL \o SP, Eq(B, <<"1">>)) \o DOT \o NL
    /\ Findings = <<>>

\* a /remediate-array request is in its loop or answered
InArray == endpoint = "/remediate-array" /\ pc \in {"remediate_read_array", "done"}

\* the indices among 1..n of the units that have findings
WithFindings(n) == {k \in 1..n : scan_unit(units[k]).findings # <<>>}

\* C5: /remediate-array collects, in input order, exactly the enriched units
\* that have findings: after n units res holds one entry for each of them
\* with a non-empty findings list, in increasing order of index, and the
\* answer is res; /remediate answers the enriched unit, its findings list
\* empty or not.
C5_ArrayFilter ==
    /\ InArray =>
         LET kept == Ascending(WithFindings(i - 1))
         IN  /\ Len(res) = Len(kept)
             /\ \A j \in 1..Len(kept) :
                  /\ res[j] = scan_unit(units[kept[j]])
                  /\ res[j].findings # <<>>
             /\ pc = "done" => response = Some(res)
    /\ Answered =>
         /\ response # None
         /\ response[1] = [units[1] EXCEPT !.findings = Findings]
         /\ Findings = scan_unit(units[1]).findings

\* a request of three units is answered with the first and the third of
\* them: the second has no finding
C5_Witness ==
    /\ InArray
    /\ pc = "done"
    /\ Len(units) = 3
    /\ WithFindings(3) = {1, 3}
    /\ Len(response[1]) = 2
    /\ response[1][1].code = units[1].code
    /\ response[1][2].code = units[3].code

\* the unit a res entry was made from
UnitOf(entry) == [entry EXCEPT !.findings = None]

Reported(txt, m) ==
    \E k \in 1..Len(ReportedSpans(txt)) :
        ReportedSpans(txt)[k] = <<m.start, m.end>>

\* the sort constructs of txt on the table of the read m whose fields cover
\* the keys of m
MatchingSorts(txt, m) ==
    SelectSeq(SortsOf(txt, upper(m.itab)),
              LAMBDA s : Covered(KeyFields(m.keys), SortFields(s.fields)))

\* C2: a read is covered only by a matching sort that stands before it: a
\* read whose matching sorts all stand after it is reported.
C2_OnlyPriorSortCovers ==
    Answered =>
      \A k \in 1..Len(READ_finditer(Src)) :
        LET m  == READ_finditer(Src)[k]
            ms == MatchingSorts(Src, m)
        IN  (\A j \in 1..Len(ms) : ms[j].start >= m.end) => Reported(Src, m)

\* the hit of the k-th finding
HitOf(k) == find_read_table_usage(Src)[k]

\* C8: starting_line is 1-based: with r = 1 + the line breaks before the
\* match, it is r + start_line - 1 when the unit gives a start_line and r
\* when it gives none.
C8_StartingLine ==
    Answered =>
      \A k \in 1..Len(Findings) :
        LET r == 1 + CountNewlines(Slice(Src, 0, HitOf(k).span[1]))
            given == units[1].start_line \notin {None, Some(0)}
        IN  Findings[k].starting_line =
              IF given THEN r + units[1].start_line[1] - 1 ELSE r

\* the full lines of txt that the characters at offsets first..last stand on:
\* a line break belongs to the line it ends
LinesTouched(txt, first, last) ==
    LET Before == {q \in 0..(first - 1) : txt[q + 1] = "\n"}
        From   == {q \in last..(Len(txt) - 1) : txt[q + 1] = "\n"}
    IN  Slice(txt,
              IF Before = {} THEN 0 ELSE Max(Before) + 1,
              IF From = {} THEN Len(txt) ELSE Min(From))

\* C9: the snippet is the text of the full lines the match span [start, end)
\* touches, each line break written as backslash n, and ending_line counts
\* the line breaks inside those lines; the line after a read that a line
\* break ends is no part of either.
C9_SnippetLines ==
    Answered =>
      \A k \in 1..Len(Findings) :
        LET lines == LinesTouched(Src, HitOf(k).span[1], HitOf(k).span[2] - 1)
        IN  /\ Findings[k].snippet = EscapeNewlines(lines)
            /\ Findings[k].ending_line - Findings[k].starting_line
                 = CountNewlines(lines)

\* C10: the table and the keys of a read come from one statement: no match
\* runs over a period before the one that ends it.
C10_OneStatementPerMatch ==
    Answered =>
      \A k \in 1..Len(READ_finditer(Src)) :
        LET m == READ_finditer(Src)[k]
        IN  \A q \in m.start..(m.end - 2) : Src[q + 1] # "."

=============================================================================
